---- MODULE Spec2Model ----
(***************************************************************************)
(* Project and file lifecycle of the visulinx API: the two routers that    *)
(* serve /organizations/{organization_id}/projects..., the object storage  *)
(* service, the before_delete hook of Project and the background text      *)
(* extraction task.                                                        *)
(*                                                                         *)
(* Every request handler has a _response operator for the status, detail   *)
(* and body it answers with, and an action for the request it serves.  An  *)
(* HTTPException raised before the first write or storage call ends the    *)
(* request with nothing done: the action is enabled for the requests that  *)
(* get past these raises.  upload and delete_file suspend at an            *)
(* asyncio.gather and are split there.  The coroutines a handler awaits    *)
(* directly (boto3 calls inside async def) never yield to the event loop,  *)
(* and the storage calls of a gather touch only keys that no other request *)
(* reads, so the guard of these two handlers and the storage calls of      *)
(* their gather are one step and the commit is the next.  At most one      *)
(* request is suspended at a time.                                         *)
(*                                                                         *)
(* The handlers of both routers are actions.  api_routes and Dispatch give *)
(* the handler that the application runs for a request: the routes of      *)
(* organizations.router come first and take the requests that the routes   *)
(* of projects.router with the same method and path are registered for.    *)
(*                                                                         *)
(* pydantic's validation of FileSchema and of the response models is not   *)
(* modelled: a handler that returns answers with what it returns.          *)
(*                                                                         *)
(* The users and auth routers and the token functions of security.py have  *)
(* a specification of their own, SpecUsers, which starts with no user.     *)
(* Spec starts with two users who have signed up and takes its requests    *)
(* from authenticated users.                                               *)
(***************************************************************************)
EXTENDS Integers, FiniteSets, Sequences, TLC

\* ---------------------------------------------------------------- bounds
MaxProjects == 2
MaxKeys == 2
MaxBatch == 2
MaxIds == 2
MaxClock == 1
MaxUsers == 3
MaxTime == 2

\* ------------------------------------------------------------- constants
OK == 200
CREATED == 201
NO_CONTENT == 204
BAD_REQUEST == 400
UNAUTHORIZED == 401
NOT_FOUND == 404
INTERNAL_SERVER_ERROR == 500

NULL == 0

\* Two signed-up users; create_user gives each an organization of their own.
Users == {"u1", "u2"}
Orgs == {"o1", "o2"}
OrgUsers == [o \in Orgs |-> IF o = "o1" THEN {"u1"} ELSE {"u2"}]

ProjectIds == 1..MaxProjects
FileIds == 1..MaxKeys
ProjectSchemas == {[name |-> "P1", description |-> "d1"],
                   [name |-> "P2", description |-> "d2"]}

PDF == "application/pdf"
PNG == "image/png"
EMPTY == "application/x-empty"
MimeTypes == {PDF, PNG, EMPTY}
Filenames == {"a"}
UploadFiles == [mime_type : MimeTypes, filename : Filenames]

NoContents == "null"
TextContents == "text"
BoxContents == "boxes"

VARIABLES
  projects,     \* projects table: id -> row
  files,        \* files table: id -> row
  storage,      \* object keys present in the bucket
  nextKey,      \* number of the next uuid4 drawn for an object key
  nextFile,     \* number of the next uuid4 drawn for a File id
  now,          \* clock read by utcnow()/now()
  up,           \* the upload request suspended at its gather
  fd,           \* the delete_file request suspended at its gather
  hookTasks,    \* tasks created by the before_delete hook, not yet run:
                \* project id -> deleted_at and paths of the files of target
  bgTasks,      \* extraction tasks scheduled by upload, not yet run
  taskSessions, \* the session that add_task was given for each of them
  purged,       \* deleted projects: id -> number of File rows it had and
                \* number of delete_file_from_s3 calls made for them
  users,        \* users table: id -> row
  organizations,\* organizations table: id -> row, with the users of
                \* organization_user as a field
  issued,       \* the tokens that login and refresh have handed out
  issuedTo      \* history of login: the sub of the tokens of a login with
                \* the user row that logged in

\* The tables and the tokens of the accounts, which no handler of the
\* project and file lifecycle writes.
accounts == <<users, organizations, issued, issuedTo>>

\* The state of the project and file lifecycle, which no handler of the
\* users and auth routers writes.
lifecycle == <<projects, files, storage, nextKey, nextFile, now,
               up, fd, hookTasks, bgTasks, taskSessions, purged>>

vars == <<projects, files, storage, nextKey, nextFile, now,
          up, fd, hookTasks, bgTasks, taskSessions, purged,
          users, organizations, issued, issuedTo>>

Idle == [pc |-> "idle"]

\* ------------------------------------------------------------- helpers
Tick == IF now < MaxClock THEN now + 1 ELSE now

ProjectFiles(project_id) == {f \in DOMAIN files : files[f].project_id = project_id}

PathsOf(fs) == {files[f].path : f \in fs}

UsedProjectIds == DOMAIN projects \cup DOMAIN purged

Range(seq) == {seq[i] : i \in 1..Len(seq)}

Failure(status, detail) == [ok |-> FALSE, status |-> status, detail |-> detail]
Found == [ok |-> TRUE, status |-> OK, detail |-> ""]

Reply(status, detail, out) == [status |-> status, detail |-> detail, out |-> out]

\* ------------------------------------------------------------- routing
\* The routes of organizations.router and of projects.router, in the order
\* api.py includes the routers.  A path is its segments; a trailing slash is
\* an empty last segment.
ORG == "{organization_id}"
PRJ == "{project_id}"
FIL == "{file_id}"
Params == {ORG, PRJ, FIL}
Base == <<"organizations", ORG, "projects">>

Route(handler, method, path) == [handler |-> handler, method |-> method, path |-> path]

organizations_router == <<
  Route("organizations.list_organization_projects", "GET", Base),
  Route("organizations.create_project", "POST", Base),
  Route("organizations.read_project", "GET", Base \o <<PRJ>>),
  Route("organizations.update_project", "PUT", Base \o <<PRJ>>),
  Route("organizations.delete_project", "DELETE", Base \o <<PRJ>>) >>

projects_router == <<
  Route("projects.list_organization_projects", "GET", Base \o <<"">>),
  Route("projects.create_project", "POST", Base \o <<"">>),
  Route("projects.read_project", "GET", Base \o <<PRJ>>),
  Route("projects.update_project", "PUT", Base \o <<PRJ>>),
  Route("projects.delete_project", "DELETE", Base \o <<PRJ>>),
  Route("projects.hard_delete_project", "DELETE", Base \o <<PRJ, "hard">>),
  Route("projects.upload", "POST", Base \o <<PRJ, "files">>),
  Route("projects.delete_file", "DELETE", Base \o <<PRJ, "files">>),
  Route("projects.read_file", "GET", Base \o <<PRJ, "files", FIL>>),
  Route("projects.download_file", "GET", Base \o <<PRJ, "files", FIL, "download">>),
  Route("projects.extract_bounding_boxes", "GET",
        Base \o <<PRJ, "files", FIL, "extract_bounding_boxes">>) >>

api_routes == organizations_router \o projects_router

\* A path parameter matches one non-empty segment; any other segment of the
\* route matches itself.
Matches(route, method, path) ==
  /\ route.method = method
  /\ Len(route.path) = Len(path)
  /\ \A i \in 1..Len(path) :
       IF route.path[i] \in Params THEN path[i] # "" ELSE route.path[i] = path[i]

\* The first route that matches serves the request.
Dispatch(method, path) ==
  LET hits == {i \in 1..Len(api_routes) : Matches(api_routes[i], method, path)}
  IN  IF hits = {} THEN "none"
      ELSE api_routes[CHOOSE i \in hits : \A j \in hits : i <= j].handler

\* The path of a request for the route of `handler`, with a uuid for every
\* path parameter.
RequestPath(handler) ==
  LET r == CHOOSE r \in {api_routes[i] : i \in 1..Len(api_routes)} : r.handler = handler
  IN  [i \in 1..Len(r.path) |-> IF r.path[i] \in Params THEN "uuid" ELSE r.path[i]]

RequestMethod(handler) ==
  (CHOOSE r \in {api_routes[i] : i \in 1..Len(api_routes)} : r.handler = handler).method

\* The handler the application runs for the request that `handler` is
\* registered for.
Serving(handler) == Dispatch(RequestMethod(handler), RequestPath(handler))

\* ------------------------------------------------------------- guards
organizations_get_organization(user, organization_id) ==
  IF organization_id \in Orgs /\ user \in OrgUsers[organization_id]
  THEN Found
  ELSE Failure(NOT_FOUND, "Organization not found.")

organizations_get_project(user, organization_id, project_id) ==
  IF /\ project_id \in DOMAIN projects
     /\ projects[project_id].organization_id = organization_id
     /\ user \in OrgUsers[projects[project_id].organization_id]
  THEN Found
  ELSE Failure(NOT_FOUND, "Project not found.")

get_organization(user, organization_id) ==
  IF organization_id \in Orgs /\ user \in OrgUsers[organization_id]
  THEN Found
  ELSE Failure(NOT_FOUND, "Organization not found.")

\* get_project with a query that leaves out the membership condition
\* Project.organization.has(Organization.users.contains(user)).
get_project_of_any_user(user, organization_id, project_id, ignore_deleted) ==
  IF /\ project_id \in DOMAIN projects
     /\ projects[project_id].organization_id = organization_id
  THEN IF ignore_deleted /\ projects[project_id].deleted_at # NULL
       THEN Failure(NOT_FOUND, "Project not found.")
       ELSE Found
  ELSE Failure(NOT_FOUND, "Project not found.")

\* get_project without the check of deleted_at.
get_project_including_deleted(user, organization_id, project_id, ignore_deleted) ==
  IF /\ project_id \in DOMAIN projects
     /\ projects[project_id].organization_id = organization_id
     /\ user \in OrgUsers[projects[project_id].organization_id]
  THEN Found
  ELSE Failure(NOT_FOUND, "Project not found.")

\* get_project answering a soft-deleted project with a detail of its own.
get_project_telling_deleted(user, organization_id, project_id, ignore_deleted) ==
  IF /\ project_id \in DOMAIN projects
     /\ projects[project_id].organization_id = organization_id
     /\ user \in OrgUsers[projects[project_id].organization_id]
  THEN IF ignore_deleted /\ projects[project_id].deleted_at # NULL
       THEN Failure(NOT_FOUND, "Project has been deleted.")
       ELSE Found
  ELSE Failure(NOT_FOUND, "Project not found.")

get_project(user, organization_id, project_id, ignore_deleted) ==
  IF /\ project_id \in DOMAIN projects
     /\ projects[project_id].organization_id = organization_id
     /\ user \in OrgUsers[projects[project_id].organization_id]
  THEN IF ignore_deleted /\ projects[project_id].deleted_at # NULL
       THEN Failure(NOT_FOUND, "Project not found.")
       ELSE Found
  ELSE Failure(NOT_FOUND, "Project not found.")

\* ------------------------------------------------------ object storage
\* delete_file_from_s3 for each of `paths`; `failed` are the ones whose
\* delete_object answers with another status than 204, or raises.
S3Delete(paths, failed) == storage \ (paths \ failed)

\* session.delete(project) and the cascade of Project.files.
DeleteProjectRow(project_id) ==
  /\ projects' = [p \in DOMAIN projects \ {project_id} |-> projects[p]]
  /\ files' = [f \in DOMAIN files \ ProjectFiles(project_id) |-> files[f]]

NewProject(organization_id, project) ==
  [organization_id |-> organization_id, name |-> project.name,
   description |-> project.description, deleted_at |-> NULL]

NextProjectId == Cardinality(UsedProjectIds) + 1

\* --------------------------------------------- organizations.router
organizations_list_organization_projects_response(user, organization_id) ==
  LET organization == organizations_get_organization(user, organization_id)
  IN  IF ~organization.ok
      THEN Reply(organization.status, organization.detail, {})
      ELSE Reply(OK, "", {p \in DOMAIN projects :
                            projects[p].organization_id = organization_id})

organizations_list_organization_projects(user, organization_id) ==
  /\ organizations_get_organization(user, organization_id).ok
  /\ UNCHANGED vars

organizations_create_project_response(user, organization_id) ==
  LET organization == organizations_get_organization(user, organization_id)
  IN  IF ~organization.ok
      THEN Reply(organization.status, organization.detail, {})
      ELSE Reply(CREATED, "", {NextProjectId})

organizations_create_project(user, organization_id, project) ==
  /\ organizations_get_organization(user, organization_id).ok
  /\ NextProjectId <= MaxProjects
  /\ projects' = projects @@ (NextProjectId :> NewProject(organization_id, project))
  /\ UNCHANGED accounts /\ UNCHANGED <<files, storage, nextKey, nextFile, now, up, fd, hookTasks, bgTasks, taskSessions, purged>>

organizations_read_project_response(user, organization_id, project_id) ==
  LET found == organizations_get_project(user, organization_id, project_id)
  IN  IF ~found.ok
      THEN Reply(found.status, found.detail, {})
      ELSE Reply(OK, "", {project_id})

organizations_read_project(user, organization_id, project_id) ==
  /\ organizations_get_project(user, organization_id, project_id).ok
  /\ UNCHANGED vars

organizations_update_project_response(user, organization_id, project_id) ==
  LET found == organizations_get_project(user, organization_id, project_id)
  IN  IF ~found.ok
      THEN Reply(found.status, found.detail, {})
      ELSE Reply(OK, "", {project_id})

organizations_update_project(user, organization_id, project_id, project) ==
  /\ organizations_get_project(user, organization_id, project_id).ok
  /\ projects' = [projects EXCEPT ![project_id].name = project.name,
                                  ![project_id].description = project.description]
  /\ UNCHANGED accounts /\ UNCHANGED <<files, storage, nextKey, nextFile, now, up, fd, hookTasks, bgTasks, taskSessions, purged>>

organizations_delete_project_response(user, organization_id, project_id) ==
  LET found == organizations_get_project(user, organization_id, project_id)
  IN  IF ~found.ok
      THEN Reply(found.status, found.detail, {})
      ELSE Reply(NO_CONTENT, "", {})

\* session.delete(project) in a handler that is a plain function: it runs in
\* a worker thread, where the before_delete hook finds no event loop, logs
\* the RuntimeError and deletes nothing from storage.
organizations_delete_project(user, organization_id, project_id) ==
  /\ organizations_get_project(user, organization_id, project_id).ok
  /\ DeleteProjectRow(project_id)
  /\ purged' = purged @@
       (project_id :> [files |-> Cardinality(ProjectFiles(project_id)), attempts |-> 0])
  /\ UNCHANGED accounts /\ UNCHANGED <<storage, nextKey, nextFile, now, up, fd, hookTasks, bgTasks, taskSessions>>
\* ------------------------------------------------- projects.router
list_organization_projects_response(user, organization_id) ==
  LET organization == get_organization(user, organization_id)
  IN  IF ~organization.ok
      THEN Reply(organization.status, organization.detail, {})
      ELSE Reply(OK, "", {p \in DOMAIN projects :
                            /\ projects[p].organization_id = organization_id
                            /\ projects[p].deleted_at = NULL})

list_organization_projects(user, organization_id) ==
  /\ get_organization(user, organization_id).ok
  /\ UNCHANGED vars

create_project_response(user, organization_id) ==
  LET organization == get_organization(user, organization_id)
  IN  IF ~organization.ok
      THEN Reply(organization.status, organization.detail, {})
      ELSE Reply(CREATED, "", {NextProjectId})

create_project(user, organization_id, project) ==
  /\ get_organization(user, organization_id).ok
  /\ NextProjectId <= MaxProjects
  /\ projects' = projects @@ (NextProjectId :> NewProject(organization_id, project))
  /\ UNCHANGED accounts /\ UNCHANGED <<files, storage, nextKey, nextFile, now, up, fd, hookTasks, bgTasks, taskSessions, purged>>

read_project_response(user, organization_id, project_id) ==
  LET found == get_project(user, organization_id, project_id, TRUE)
  IN  IF ~found.ok
      THEN Reply(found.status, found.detail, {})
      ELSE Reply(OK, "", {project_id})

read_project(user, organization_id, project_id) ==
  /\ get_project(user, organization_id, project_id, TRUE).ok
  /\ UNCHANGED vars

update_project_response(user, organization_id, project_id) ==
  LET found == get_project(user, organization_id, project_id, TRUE)
  IN  IF ~found.ok
      THEN Reply(found.status, found.detail, {})
      ELSE Reply(OK, "", {project_id})

update_project(user, organization_id, project_id, project) ==
  /\ get_project(user, organization_id, project_id, TRUE).ok
  /\ projects' = [projects EXCEPT ![project_id].name = project.name,
                                  ![project_id].description = project.description]
  /\ UNCHANGED accounts /\ UNCHANGED <<files, storage, nextKey, nextFile, now, up, fd, hookTasks, bgTasks, taskSessions, purged>>

delete_project_response(user, organization_id, project_id) ==
  LET found == get_project(user, organization_id, project_id, TRUE)
  IN  IF ~found.ok
      THEN Reply(found.status, found.detail, {})
      ELSE Reply(NO_CONTENT, "", {})

delete_project(user, organization_id, project_id) ==
  /\ get_project(user, organization_id, project_id, TRUE).ok
  /\ projects' = [projects EXCEPT ![project_id].deleted_at = now]
  /\ now' = Tick
  /\ UNCHANGED accounts /\ UNCHANGED <<files, storage, nextKey, nextFile, up, fd, hookTasks, bgTasks, taskSessions, purged>>

\* hard_delete_project calling the guard with its default, ignore_deleted=True.
hard_delete_project_response_ignoring_deleted(user, organization_id, project_id) ==
  LET found == get_project(user, organization_id, project_id, TRUE)
  IN  IF ~found.ok
      THEN Reply(found.status, found.detail, {})
      ELSE Reply(NO_CONTENT, "", {})

hard_delete_project_response(user, organization_id, project_id) ==
  LET found == get_project(user, organization_id, project_id, FALSE)
  IN  IF ~found.ok
      THEN Reply(found.status, found.detail, {})
      ELSE Reply(NO_CONTENT, "", {})

\* hard_delete_project without the try/except around delete_file_from_s3:
\* the first exception ends the request before session.delete.
hard_delete_project_aborting(user, organization_id, project_id, failed) ==
  LET paths == PathsOf(ProjectFiles(project_id))
  IN  /\ get_project(user, organization_id, project_id, FALSE).ok
      /\ failed \subseteq paths
      /\ IF failed = {}
         THEN /\ storage' = S3Delete(paths, failed)
              /\ DeleteProjectRow(project_id)
              /\ purged' = purged @@
                   (project_id :> [files |-> Cardinality(ProjectFiles(project_id)),
                                   attempts |-> Cardinality(paths)])
              /\ hookTasks' = hookTasks @@
                   (project_id :> [deleted_at |-> projects[project_id].deleted_at,
                                   files |-> paths])
         ELSE /\ \E done \in SUBSET (paths \ failed) : storage' = storage \ done
              /\ UNCHANGED <<projects, files, hookTasks, purged>>
      /\ UNCHANGED accounts /\ UNCHANGED <<nextKey, nextFile, now, up, fd, bgTasks, taskSessions>>

\* The handler awaits delete_file_from_s3 file by file and logs every
\* exception (`failed` are the paths it is raised for); session.delete then
\* fires the before_delete hook, which finds the running loop and creates a
\* task over the same files.
hard_delete_project(user, organization_id, project_id, failed) ==
  LET paths == PathsOf(ProjectFiles(project_id))
  IN  /\ get_project(user, organization_id, project_id, FALSE).ok
      /\ failed \subseteq paths
      /\ storage' = S3Delete(paths, failed)
      /\ DeleteProjectRow(project_id)
      /\ purged' = purged @@
           (project_id :> [files |-> Cardinality(ProjectFiles(project_id)),
                           attempts |-> Cardinality(paths)])
      /\ hookTasks' = hookTasks @@
           (project_id :> [deleted_at |-> projects[project_id].deleted_at,
                           files |-> paths])
      /\ UNCHANGED accounts /\ UNCHANGED <<nextKey, nextFile, now, up, fd, bgTasks, taskSessions>>

\* The task the before_delete hook created: delete_all_files over the files
\* of the deleted project, each exception logged.
delete_project_files_from_s3(project_id) ==
  /\ project_id \in DOMAIN hookTasks
  /\ \E failed \in SUBSET hookTasks[project_id].files :
       storage' = S3Delete(hookTasks[project_id].files, failed)
  /\ purged' = [purged EXCEPT ![project_id].attempts =
                  @ + Cardinality(hookTasks[project_id].files)]
  /\ hookTasks' = [p \in DOMAIN hookTasks \ {project_id} |-> hookTasks[p]]
  /\ UNCHANGED accounts /\ UNCHANGED <<projects, files, nextKey, nextFile, now, up, fd, bgTasks, taskSessions>>

\* ------------------------------------------------------------ upload
\* mimetypes.guess_extension: "" stands for None.
guess_extension(mime_type) ==
  CASE mime_type = PDF -> ".pdf"
    [] mime_type = PNG -> ".png"
    [] OTHER -> ""

\* upload_file_to_s3 with a key made of the name the client sent instead of
\* a uuid4 and the guessed extension.
upload_file_to_s3_named_by_filename(project_id, file, key, put_status) ==
  LET extension == guess_extension(file.mime_type)
      path == <<project_id, 0, file.filename>>
  IN  IF extension = ""
      THEN [status |-> BAD_REQUEST, detail |-> "Unsupported file type.",
            path |-> <<0, 0, "">>, mime_type |-> file.mime_type,
            original_filename |-> file.filename]
      ELSE IF put_status # OK
           THEN [status |-> INTERNAL_SERVER_ERROR, detail |-> "Failed to upload file to S3.",
                 path |-> path, mime_type |-> file.mime_type,
                 original_filename |-> file.filename]
           ELSE [status |-> OK, detail |-> "", path |-> path,
                 mime_type |-> file.mime_type, original_filename |-> file.filename]

\* upload_file_to_s3 with the uuid4 numbered `key` and put_object answering
\* with `put_status`.  The key is projects/{project_id}/{uuid4}{extension}.
upload_file_to_s3(project_id, file, key, put_status) ==
  LET extension == guess_extension(file.mime_type)
      path == <<project_id, key, extension>>
  IN  IF extension = ""
      THEN [status |-> BAD_REQUEST, detail |-> "Unsupported file type.",
            path |-> <<0, 0, "">>, mime_type |-> file.mime_type,
            original_filename |-> file.filename]
      ELSE IF put_status # OK
           THEN [status |-> INTERNAL_SERVER_ERROR, detail |-> "Failed to upload file to S3.",
                 path |-> path, mime_type |-> file.mime_type,
                 original_filename |-> file.filename]
           ELSE [status |-> OK, detail |-> "", path |-> path,
                 mime_type |-> file.mime_type, original_filename |-> file.filename]

Batches == UNION {[1..n -> UploadFiles] : n \in 1..MaxBatch}

PutStatuses(batch) == [1..Len(batch) -> {OK, INTERNAL_SERVER_ERROR}]

\* A gather with return_exceptions=True whose caller keeps the results that
\* are no exception.
Gathered_return_exceptions(results) ==
  [raised |-> FALSE, status |-> OK, detail |-> "",
   results |-> SelectSeq(results, LAMBDA r : r.status = OK)]

\* What the gather of upload hands back: the first exception raised among
\* the tasks, or their results.
Gathered(results) ==
  LET errors == {i \in 1..Len(results) : results[i].status # OK}
      first == CHOOSE i \in errors : \A j \in errors : i <= j
  IN  IF errors # {}
      THEN [raised |-> TRUE, status |-> results[first].status,
            detail |-> results[first].detail, results |-> <<>>]
      ELSE [raised |-> FALSE, status |-> OK, detail |-> "", results |-> results]

\* What upload answers before its gather, OK standing for no answer yet.
upload_response(user, organization_id, project_id) ==
  LET found == get_project(user, organization_id, project_id, TRUE)
  IN  IF ~found.ok
      THEN Reply(found.status, found.detail, {})
      ELSE Reply(OK, "", {})

\* upload up to the return of its gather: the guard, then every
\* upload_file_to_s3 of the files of the request, whether or not an earlier
\* one raised.  `batch` are the files and put_status what put_object answers
\* for each.  get_session yields a Session of its own to every request; the
\* one of an upload is numbered by the first key that the upload draws.
upload(user, organization_id, project_id) ==
  /\ up.pc = "idle" /\ fd.pc = "idle"
  /\ get_project(user, organization_id, project_id, TRUE).ok
  /\ \E batch \in Batches : \E put_status \in PutStatuses(batch) :
       LET results == [i \in 1..Len(batch) |->
                         upload_file_to_s3(project_id, batch[i], nextKey + i - 1,
                                           put_status[i])]
       IN  /\ nextKey + Len(batch) - 1 <= MaxKeys
           /\ storage' = storage \cup
                {results[i].path : i \in {j \in 1..Len(batch) : results[j].status = OK}}
           /\ nextKey' = nextKey + Len(batch)
           /\ up' = [pc |-> "gathered", project_id |-> project_id, files |-> Len(batch),
                     session |-> nextKey, gathered |-> Gathered(results)]
  /\ UNCHANGED accounts /\ UNCHANGED <<projects, files, nextFile, now, fd, hookTasks, bgTasks, taskSessions, purged>>

\* The File rows of upload with processed_at set when they are added.
NewFiles_processed(results, project_id) ==
  [id \in nextFile..(nextFile + Len(results) - 1) |->
     [project_id |-> project_id,
      path |-> results[id - nextFile + 1].path,
      mime_type |-> results[id - nextFile + 1].mime_type,
      original_filename |-> results[id - nextFile + 1].original_filename,
      contents |-> NoContents,
      processed_at |-> now]]

\* The File rows of session.add for the results, ids drawn from nextFile on.
NewFiles(results, project_id) ==
  [id \in nextFile..(nextFile + Len(results) - 1) |->
     [project_id |-> project_id,
      path |-> results[id - nextFile + 1].path,
      mime_type |-> results[id - nextFile + 1].mime_type,
      original_filename |-> results[id - nextFile + 1].original_filename,
      contents |-> NoContents,
      processed_at |-> NULL]]

\* What upload answers once its gather has returned: the exception of the
\* gather, or a failure of get_download_url (~presigned), or of the commit
\* when the database enforces files.project_id -> projects.id (fk) and the
\* project is gone, or the records with the ids of their rows.
upload_finish_response(presigned, fk) ==
  IF up.gathered.raised
  THEN Reply(up.gathered.status, up.gathered.detail, {})
  ELSE IF ~presigned
  THEN Reply(INTERNAL_SERVER_ERROR, "Failed to generate download URL.", {})
  ELSE IF up.project_id \notin DOMAIN projects /\ fk
  THEN Reply(INTERNAL_SERVER_ERROR, "Internal Server Error", {})
  ELSE Reply(CREATED, "", DOMAIN NewFiles(up.gathered.results, up.project_id))

\* upload adding the extraction task for every result, whatever its
\* mime_type.
upload_finish_scheduling_all(presigned, fk) ==
  LET rows == NewFiles(up.gathered.results, up.project_id)
  IN  /\ up.pc = "gathered"
      /\ IF upload_finish_response(presigned, fk).status = CREATED
         THEN /\ files' = files @@ rows
              /\ nextFile' = nextFile + Len(up.gathered.results)
              /\ bgTasks' = bgTasks \cup DOMAIN rows
              /\ taskSessions' = [f \in bgTasks' |->
                   IF f \in bgTasks THEN taskSessions[f] ELSE up.session]
         ELSE UNCHANGED <<files, nextFile, bgTasks, taskSessions>>
      /\ up' = Idle
      /\ UNCHANGED accounts /\ UNCHANGED <<projects, storage, nextKey, now, fd, hookTasks, purged>>

\* upload from the return of the gather.
upload_finish(presigned, fk) ==
  LET rows == NewFiles(up.gathered.results, up.project_id)
  IN  /\ up.pc = "gathered"
      /\ IF upload_finish_response(presigned, fk).status = CREATED
         THEN /\ files' = files @@ rows
              /\ nextFile' = nextFile + Len(up.gathered.results)
              /\ bgTasks' = bgTasks \cup {id \in DOMAIN rows : rows[id].mime_type = PDF}
              /\ taskSessions' = [f \in bgTasks' |->
                   IF f \in bgTasks THEN taskSessions[f] ELSE up.session]
         ELSE UNCHANGED <<files, nextFile, bgTasks, taskSessions>>
      /\ up' = Idle
      /\ UNCHANGED accounts /\ UNCHANGED <<projects, storage, nextKey, now, fd, hookTasks, purged>>

\* extract_text committing the contents without processed_at.
extract_text_contents_only(file_id, extracted) ==
  /\ file_id \in bgTasks
  /\ bgTasks' = bgTasks \ {file_id}
  /\ taskSessions' = [f \in bgTasks' |-> taskSessions[f]]
  /\ IF extracted /\ file_id \in DOMAIN files
     THEN files' = [files EXCEPT ![file_id].contents = TextContents]
     ELSE UNCHANGED files
  /\ UNCHANGED accounts /\ UNCHANGED <<projects, storage, nextKey, nextFile, now, up, fd, hookTasks, purged>>

\* extract_text put back on the queue when the extraction service fails.
extract_text_retrying(file_id, extracted) ==
  /\ file_id \in bgTasks
  /\ IF extracted /\ file_id \in DOMAIN files
     THEN /\ files' = [files EXCEPT ![file_id].contents = TextContents,
                                    ![file_id].processed_at = now]
          /\ now' = Tick
          /\ bgTasks' = bgTasks \ {file_id}
     ELSE /\ UNCHANGED <<files, now>>
          /\ bgTasks' = IF extracted THEN bgTasks \ {file_id} ELSE bgTasks
  /\ taskSessions' = [f \in bgTasks' |-> taskSessions[f]]
  /\ UNCHANGED accounts /\ UNCHANGED <<projects, storage, nextKey, nextFile, up, fd, hookTasks, purged>>

\* extract_text that adds the row again when session.get finds none.
extract_text_upserting(file_id, extracted) ==
  /\ file_id \in bgTasks
  /\ bgTasks' = bgTasks \ {file_id}
  /\ taskSessions' = [f \in bgTasks' |-> taskSessions[f]]
  /\ IF extracted
     THEN /\ files' = [f \in DOMAIN files \cup {file_id} |->
                         IF f = file_id
                         THEN [project_id |-> NULL, path |-> <<0, 0, "">>,
                               mime_type |-> PDF, original_filename |-> "a",
                               contents |-> TextContents, processed_at |-> now]
                         ELSE files[f]]
          /\ now' = Tick
     ELSE UNCHANGED <<files, now>>
  /\ UNCHANGED accounts /\ UNCHANGED <<projects, storage, nextKey, nextFile, up, fd, hookTasks, purged>>

\* The background task of document_service: with the answer of the
\* extraction service at hand (`extracted`) it writes the file if the row
\* is still there; raise_for_status or the client ends it otherwise.
extract_text(file_id, extracted) ==
  /\ file_id \in bgTasks
  /\ bgTasks' = bgTasks \ {file_id}
  /\ taskSessions' = [f \in bgTasks' |-> taskSessions[f]]
  /\ IF extracted /\ file_id \in DOMAIN files
     THEN /\ files' = [files EXCEPT ![file_id].contents = TextContents,
                                    ![file_id].processed_at = now]
          /\ now' = Tick
     ELSE UNCHANGED <<files, now>>
  /\ UNCHANGED accounts /\ UNCHANGED <<projects, storage, nextKey, nextFile, up, fd, hookTasks, purged>>
\* ------------------------------------------------------- delete_file
IdLists == UNION {[1..n -> FileIds] : n \in 1..MaxIds}

\* The query without the filter File.project_id == project_id.
MatchedFiles_in_any_project(project_id, ids) ==
  {f \in DOMAIN files : f \in Range(ids)}

\* The rows of the query: File.id.in_(ids), File.project_id == project_id.
MatchedFiles(project_id, ids) ==
  {f \in DOMAIN files : f \in Range(ids) /\ files[f].project_id = project_id}

\* One delete_file_from_s3 for every id of the request that matches a row.
delete_file_calls_per_id(project_id, ids) ==
  [path \in PathsOf(MatchedFiles(project_id, ids)) |->
     Cardinality({i \in 1..Len(ids) :
                    /\ ids[i] \in MatchedFiles(project_id, ids)
                    /\ files[ids[i]].path = path})]

\* The calls of delete_file_from_s3 that the gather of delete_file is given:
\* the number of calls with each path, one call for each row of db_files.
delete_file_calls(project_id, ids) ==
  [path \in PathsOf(MatchedFiles(project_id, ids)) |->
     Cardinality({f \in MatchedFiles(project_id, ids) : files[f].path = path})]

\* What delete_file answers before its gather, OK standing for no answer yet.
delete_file_response(user, organization_id, project_id, ids) ==
  LET found == get_project(user, organization_id, project_id, TRUE)
  IN  IF ~found.ok
      THEN Reply(found.status, found.detail, {})
      ELSE IF Len(ids) = 0
      THEN Reply(BAD_REQUEST, "No file IDs provided.", {})
      ELSE IF MatchedFiles(project_id, ids) = {}
      THEN Reply(NOT_FOUND, "No files found in database", {})
      ELSE Reply(OK, "", MatchedFiles(project_id, ids))

\* delete_file up to the return of its gather: the guard, the query, then
\* one delete_file_from_s3 for each row found; `failed` are the paths it
\* raises for.
delete_file(user, organization_id, project_id, ids) ==
  LET reply == delete_file_response(user, organization_id, project_id, ids)
      db_files == MatchedFiles(project_id, ids)
  IN  /\ up.pc = "idle" /\ fd.pc = "idle"
      /\ get_project(user, organization_id, project_id, TRUE).ok
      /\ reply.status = OK
      /\ \E failed \in SUBSET PathsOf(db_files) :
           /\ storage' = S3Delete(PathsOf(db_files), failed)
           /\ fd' = [pc |-> "gathered", project_id |-> project_id,
                     db_files |-> db_files, raised |-> failed # {},
                     calls |-> delete_file_calls(project_id, ids)]
      /\ UNCHANGED accounts /\ UNCHANGED <<projects, files, nextKey, nextFile, now, up, hookTasks, bgTasks, taskSessions, purged>>

\* delete_file with a gather whose exceptions are dropped.
delete_file_finish_response_ignoring_failures ==
  Reply(NO_CONTENT, "", fd.db_files)

\* What delete_file answers once its gather has returned: the exception of
\* a task, or 204.
delete_file_finish_response ==
  IF fd.raised
  THEN Reply(INTERNAL_SERVER_ERROR, "Failed to delete file from S3.", {})
  ELSE Reply(NO_CONTENT, "", fd.db_files)

\* delete_file from the return of the gather.
delete_file_finish ==
  /\ fd.pc = "gathered"
  /\ IF delete_file_finish_response.status = NO_CONTENT
     THEN files' = [f \in DOMAIN files \ fd.db_files |-> files[f]]
     ELSE UNCHANGED files
  /\ fd' = Idle
  /\ UNCHANGED accounts /\ UNCHANGED <<projects, storage, nextKey, nextFile, now, up, hookTasks, bgTasks, taskSessions, purged>>

\* ------------------------------------------------- reads of a file
FileOf(project_id, file_id) ==
  file_id \in DOMAIN files /\ files[file_id].project_id = project_id

read_file_response(user, organization_id, project_id, file_id) ==
  LET found == get_project(user, organization_id, project_id, TRUE)
  IN  IF ~found.ok
      THEN Reply(found.status, found.detail, {})
      ELSE IF ~FileOf(project_id, file_id)
      THEN Reply(NOT_FOUND, "File not found.", {})
      ELSE Reply(OK, "", {file_id})

read_file(user, organization_id, project_id, file_id) ==
  /\ get_project(user, organization_id, project_id, TRUE).ok
  /\ read_file_response(user, organization_id, project_id, file_id).status = OK
  /\ UNCHANGED vars

\* get_download_url: the presigned URL of generate_presigned_url for the
\* object key and the filename of the Content-Disposition, or the failure
\* of the call (~presigned).
get_download_url(file_path, original_filename, presigned) ==
  IF file_path = <<>>
  THEN [status |-> BAD_REQUEST, detail |-> "No file path provided.", url |-> {}]
  ELSE IF ~presigned
  THEN [status |-> INTERNAL_SERVER_ERROR, detail |-> "Failed to generate download URL.",
        url |-> {}]
  ELSE [status |-> OK, detail |-> "",
        url |-> {[Key |-> file_path, filename |-> original_filename]}]

\* download_file with a query that leaves out File.id == file_id.
download_file_response_of_any_file(user, organization_id, project_id, file_id, presigned) ==
  LET found == get_project(user, organization_id, project_id, TRUE)
      file == CHOOSE f \in ProjectFiles(project_id) : TRUE
      download_url == get_download_url(files[file].path, files[file].original_filename,
                                       presigned)
  IN  IF ~found.ok
      THEN Reply(found.status, found.detail, {})
      ELSE IF ProjectFiles(project_id) = {}
      THEN Reply(NOT_FOUND, "File not found.", {})
      ELSE Reply(download_url.status, download_url.detail, download_url.url)

\* The answer of download_file; the body is the URL.
download_file_response(user, organization_id, project_id, file_id, presigned) ==
  LET found == get_project(user, organization_id, project_id, TRUE)
      download_url == get_download_url(files[file_id].path,
                                       files[file_id].original_filename, presigned)
  IN  IF ~found.ok
      THEN Reply(found.status, found.detail, {})
      ELSE IF ~FileOf(project_id, file_id)
      THEN Reply(NOT_FOUND, "File not found.", {})
      ELSE Reply(download_url.status, download_url.detail, download_url.url)

download_file(user, organization_id, project_id, file_id, presigned) ==
  /\ get_project(user, organization_id, project_id, TRUE).ok
  /\ download_file_response(user, organization_id, project_id, file_id, presigned).status = OK
  /\ UNCHANGED vars

\* The rows of the query for documents: the PDF files of the project whose
\* processed_at is set.
Documents(project_id) ==
  {f \in ProjectFiles(project_id) :
     files[f].mime_type = PDF /\ files[f].processed_at # NULL}

\* The dict given to the AI service: the contents of the documents that
\* have contents, under their original_filename (one entry for a name).
document_contents(project_id) ==
  [name \in {files[f].original_filename :
               f \in {d \in Documents(project_id) :
                        files[d].contents # NoContents}} |->
     files[CHOOSE d \in Documents(project_id) :
             /\ files[d].contents # NoContents
             /\ files[d].original_filename = name].contents]

\* extract_bounding_boxes without the test of the mime type of the file.
extract_bounding_boxes_response_of_any_file(user, organization_id, project_id, file_id, presigned, answered) ==
  LET found == get_project(user, organization_id, project_id, TRUE)
      documents == {f \in ProjectFiles(project_id) :
                      files[f].mime_type = PDF /\ files[f].processed_at # NULL}
  IN  IF ~found.ok
      THEN Reply(found.status, found.detail, {})
      ELSE IF ~FileOf(project_id, file_id)
      THEN Reply(NOT_FOUND, "File not found.", {})
      ELSE IF ~presigned
      THEN Reply(INTERNAL_SERVER_ERROR, "Failed to generate download URL.", {})
      ELSE IF documents = {}
      THEN Reply(BAD_REQUEST, "No PDF documents found in project.", {})
      ELSE IF ~answered
      THEN Reply(INTERNAL_SERVER_ERROR, "Internal Server Error", {})
      ELSE Reply(OK, "", {file_id})

\* `answered`: both prompts are stored, GeminiAiService is configured and
\* its call returns.
extract_bounding_boxes_response(user, organization_id, project_id, file_id, presigned, answered) ==
  LET found == get_project(user, organization_id, project_id, TRUE)
      documents == {f \in ProjectFiles(project_id) :
                      files[f].mime_type = PDF /\ files[f].processed_at # NULL}
  IN  IF ~found.ok
      THEN Reply(found.status, found.detail, {})
      ELSE IF ~FileOf(project_id, file_id)
      THEN Reply(NOT_FOUND, "File not found.", {})
      ELSE IF files[file_id].mime_type # PNG
      THEN Reply(BAD_REQUEST, "File is not an image.", {})
      ELSE IF ~presigned
      THEN Reply(INTERNAL_SERVER_ERROR, "Failed to generate download URL.", {})
      ELSE IF documents = {}
      THEN Reply(BAD_REQUEST, "No PDF documents found in project.", {})
      ELSE IF ~answered
      THEN Reply(INTERNAL_SERVER_ERROR, "Internal Server Error", {})
      ELSE Reply(OK, "", {file_id})

extract_bounding_boxes(user, organization_id, project_id, file_id, presigned, answered) ==
  /\ get_project(user, organization_id, project_id, TRUE).ok
  /\ extract_bounding_boxes_response(user, organization_id, project_id, file_id,
                                     presigned, answered).status = OK
  /\ files' = [files EXCEPT ![file_id].contents = BoxContents,
                            ![file_id].processed_at = now]
  /\ now' = Tick
  /\ UNCHANGED accounts /\ UNCHANGED <<projects, storage, nextKey, nextFile, up, fd, hookTasks, bgTasks, taskSessions, purged>>

\* --------------------------------------------------------------- spec
NoRows == [x \in {} |-> 0]

Init ==
  /\ projects = NoRows
  /\ files = NoRows
  /\ storage = {}
  /\ nextKey = 1
  /\ nextFile = 1
  /\ now = 1
  /\ up = Idle
  /\ fd = Idle
  /\ hookTasks = NoRows
  /\ bgTasks = {}
  /\ taskSessions = NoRows
  /\ purged = NoRows
  /\ users = [u \in Users |-> [email |-> u, password |-> <<"hash", u>>]]
  /\ organizations =
       [o \in Orgs |-> [name |-> "Default", users |-> OrgUsers[o]]]
  /\ issued = {}
  /\ issuedTo = {}

\* The requests that take a step come from a member of the organization
\* and address a project and a file that exist: every handler answers the
\* others before its first write (the _response operators give the answer).
Next ==
  \/ \E organization_id \in Orgs : \E user \in OrgUsers[organization_id] :
       organizations_list_organization_projects(user, organization_id)
  \/ \E organization_id \in Orgs : \E user \in OrgUsers[organization_id] :
       \E project \in ProjectSchemas :
         organizations_create_project(user, organization_id, project)
  \/ \E organization_id \in Orgs : \E user \in OrgUsers[organization_id] :
       \E project_id \in DOMAIN projects :
         organizations_read_project(user, organization_id, project_id)
  \/ \E organization_id \in Orgs : \E user \in OrgUsers[organization_id] :
       \E project_id \in DOMAIN projects :
         \E project \in ProjectSchemas :
           organizations_update_project(user, organization_id, project_id, project)
  \/ \E organization_id \in Orgs : \E user \in OrgUsers[organization_id] :
       \E project_id \in DOMAIN projects :
         organizations_delete_project(user, organization_id, project_id)
  \/ \E organization_id \in Orgs : \E user \in OrgUsers[organization_id] :
       list_organization_projects(user, organization_id)
  \/ \E organization_id \in Orgs : \E user \in OrgUsers[organization_id] :
       \E project \in ProjectSchemas :
         create_project(user, organization_id, project)
  \/ \E organization_id \in Orgs : \E user \in OrgUsers[organization_id] :
       \E project_id \in DOMAIN projects :
         read_project(user, organization_id, project_id)
  \/ \E organization_id \in Orgs : \E user \in OrgUsers[organization_id] :
       \E project_id \in DOMAIN projects :
         \E project \in ProjectSchemas :
           update_project(user, organization_id, project_id, project)
  \/ \E organization_id \in Orgs : \E user \in OrgUsers[organization_id] :
       \E project_id \in DOMAIN projects :
         delete_project(user, organization_id, project_id)
  \/ \E organization_id \in Orgs : \E user \in OrgUsers[organization_id] :
       \E project_id \in DOMAIN projects :
         \E failed \in SUBSET PathsOf(ProjectFiles(project_id)) :
           hard_delete_project(user, organization_id, project_id, failed)
  \/ \E organization_id \in Orgs : \E user \in OrgUsers[organization_id] :
       \E project_id \in DOMAIN projects :
         upload(user, organization_id, project_id)
  \/ \E organization_id \in Orgs : \E user \in OrgUsers[organization_id] :
       \E project_id \in DOMAIN projects :
         \E ids \in IdLists :
           delete_file(user, organization_id, project_id, ids)
  \/ \E organization_id \in Orgs : \E user \in OrgUsers[organization_id] :
       \E project_id \in DOMAIN projects :
         \E file_id \in ProjectFiles(project_id) :
           read_file(user, organization_id, project_id, file_id)
  \/ \E organization_id \in Orgs : \E user \in OrgUsers[organization_id] :
       \E project_id \in DOMAIN projects :
         \E file_id \in ProjectFiles(project_id) :
           \E presigned \in BOOLEAN :
             download_file(user, organization_id, project_id, file_id, presigned)
  \/ \E organization_id \in Orgs : \E user \in OrgUsers[organization_id] :
       \E project_id \in DOMAIN projects :
         \E file_id \in ProjectFiles(project_id) :
           \E presigned \in BOOLEAN, answered \in BOOLEAN :
             extract_bounding_boxes(user, organization_id, project_id, file_id,
                                    presigned, answered)
  \/ \E presigned \in BOOLEAN, fk \in BOOLEAN : upload_finish(presigned, fk)
  \/ delete_file_finish
  \/ \E project_id \in DOMAIN hookTasks : delete_project_files_from_s3(project_id)
  \/ \E file_id \in bgTasks, extracted \in BOOLEAN : extract_text(file_id, extracted)

Spec == Init /\ [][Next]_vars

\* ------------------------------------------------ users and auth routers
\* The handlers of users.py and auth.py and the token functions of
\* security.py.  A JWT is the claims it carries and whether its signature
\* was made with SECRET_KEY.  datetime.now is an input of the handler that
\* issues a token, and whether the exp claim has passed is an input of the
\* handler that the token is presented to.  uuid4 is a counter; pwdlib's
\* hash is a tag on the password.
Emails == {"a@x", "b@x"}
Passwords == {"pw1", "pw2"}
UserSchemas == [email : Emails, password : Passwords]
UserIds == 1..MaxUsers
NoSub == "None"
TokenTypes == {"access", "refresh"}
Times == 1..MaxTime

\* The tokens that a client can make without SECRET_KEY.
Forged ==
  [sub : Emails \cup {NoSub}, type : TokenTypes, exp : Times, signed : {FALSE}]

\* The tokens that a request can carry.
Presentable == issued \cup Forged

create_access_token(data, utcnow) ==
  [sub |-> data.sub, type |-> "access", exp |-> utcnow, signed |-> TRUE]

create_refresh_token(data, utcnow) ==
  [sub |-> data.sub, type |-> "refresh", exp |-> utcnow, signed |-> TRUE]

get_password_hash(password) == <<"hash", password>>

verify_password(plain_password, hashed_password) ==
  hashed_password = <<"hash", plain_password>>

\* verify_token without the comparison of the type claim.
verify_token_of_any_type(token, token_type, expired) ==
  IF ~token.signed
  THEN [ok |-> FALSE, status |-> UNAUTHORIZED,
        detail |-> "Could not validate credentials", email |-> NoSub]
  ELSE IF expired
  THEN [ok |-> FALSE, status |-> UNAUTHORIZED,
        detail |-> "Token has expired", email |-> NoSub]
  ELSE IF token.sub = NoSub
  THEN [ok |-> FALSE, status |-> UNAUTHORIZED,
        detail |-> "Could not validate credentials", email |-> NoSub]
  ELSE [ok |-> TRUE, status |-> OK, detail |-> "", email |-> token.sub]

\* decode raises DecodeError for a bad signature and ExpiredSignatureError
\* for a passed exp claim, in this order; then the type and sub claims.
verify_token(token, token_type, expired) ==
  IF ~token.signed
  THEN [ok |-> FALSE, status |-> UNAUTHORIZED,
        detail |-> "Could not validate credentials", email |-> NoSub]
  ELSE IF expired
  THEN [ok |-> FALSE, status |-> UNAUTHORIZED,
        detail |-> "Token has expired", email |-> NoSub]
  ELSE IF token.type # token_type
  THEN [ok |-> FALSE, status |-> UNAUTHORIZED,
        detail |-> "Invalid token type", email |-> NoSub]
  ELSE IF token.sub = NoSub
  THEN [ok |-> FALSE, status |-> UNAUTHORIZED,
        detail |-> "Could not validate credentials", email |-> NoSub]
  ELSE [ok |-> TRUE, status |-> OK, detail |-> "", email |-> token.sub]

\* select(User).where(User.email == email)
UsersByEmail(email) == {u \in DOMAIN users : users[u].email = email}

credentials_exception ==
  [ok |-> FALSE, status |-> UNAUTHORIZED,
   detail |-> "Could not validate credentials", user |-> NULL]

get_current_user(token, expired) ==
  IF ~verify_token(token, "access", expired).ok
  THEN credentials_exception
  ELSE IF UsersByEmail(verify_token(token, "access", expired).email) = {}
  THEN credentials_exception
  ELSE [ok |-> TRUE, status |-> OK, detail |-> "",
        user |-> CHOOSE u \in UsersByEmail(
                     verify_token(token, "access", expired).email) : TRUE]

\* UserPublic of a row, with the organizations that the user is in.
UserPublic(user_id, row, orgs) ==
  [id |-> user_id, email |-> row.email,
   organizations |-> {[id |-> o, name |-> orgs[o].name] :
                        o \in {x \in DOMAIN orgs : user_id \in orgs[x].users}}]

\* The id that uuid4 gives next: one user and one organization are made
\* together and no organization is deleted.
NextId == Cardinality(DOMAIN organizations) + 1

\* POST /users/
create_user_response(user) ==
  IF UsersByEmail(user.email) # {}
  THEN Reply(BAD_REQUEST, "Email already exists", {})
  ELSE Reply(CREATED, "",
             {[id |-> NextId, email |-> user.email,
               organizations |-> {[id |-> NextId, name |-> "Default"]}]})

\* create_user that puts the user into an organization that exists, when
\* there is one.
create_user_joining(user) ==
  /\ create_user_response(user).status = CREATED
  /\ NextId <= MaxUsers
  /\ users' = (NextId :> [email |-> user.email,
                          password |-> get_password_hash(user.password)])
                @@ users
  /\ IF organizations = NoRows
     THEN organizations' = (NextId :> [name |-> "Default", users |-> {NextId}])
                             @@ organizations
     ELSE organizations' =
            (NextId :> [name |-> "Default", users |-> {}])
              @@ [o \in DOMAIN organizations |->
                    IF o = 1
                    THEN [organizations[o] EXCEPT !.users = @ \cup {NextId}]
                    ELSE organizations[o]]
  /\ UNCHANGED <<issued, issuedTo>> /\ UNCHANGED lifecycle

create_user(user) ==
  /\ create_user_response(user).status = CREATED
  /\ NextId <= MaxUsers
  /\ users' = (NextId :> [email |-> user.email,
                          password |-> get_password_hash(user.password)])
                @@ users
  /\ organizations' = (NextId :> [name |-> "Default", users |-> {NextId}])
                        @@ organizations
  /\ UNCHANGED <<issued, issuedTo>> /\ UNCHANGED lifecycle

\* GET /users/me
read_user_response(token, expired) ==
  IF ~get_current_user(token, expired).ok
  THEN Reply(get_current_user(token, expired).status,
             get_current_user(token, expired).detail, {})
  ELSE Reply(OK, "",
             {UserPublic(get_current_user(token, expired).user,
                         users[get_current_user(token, expired).user],
                         organizations)})

read_user(token, expired) ==
  /\ read_user_response(token, expired).status = OK
  /\ UNCHANGED vars

\* update_user without the comparison of user_id with current_user.id.
update_user_response_of_any_user(token, expired, user_id, user) ==
  IF ~get_current_user(token, expired).ok
  THEN Reply(get_current_user(token, expired).status,
             get_current_user(token, expired).detail, {})
  ELSE IF UsersByEmail(user.email) \ {get_current_user(token, expired).user}
            # {}
  THEN Reply(INTERNAL_SERVER_ERROR, "", {})
  ELSE Reply(OK, "",
             {UserPublic(get_current_user(token, expired).user,
                         [email |-> user.email], organizations)})

\* PUT /users/{user_id}.  users.email is unique: the commit of an email
\* that another row has raises IntegrityError, which nothing handles.
update_user_response(token, expired, user_id, user) ==
  IF ~get_current_user(token, expired).ok
  THEN Reply(get_current_user(token, expired).status,
             get_current_user(token, expired).detail, {})
  ELSE IF get_current_user(token, expired).user # user_id
  THEN Reply(BAD_REQUEST, "Not enough permissions", {})
  ELSE IF UsersByEmail(user.email) \ {get_current_user(token, expired).user}
            # {}
  THEN Reply(INTERNAL_SERVER_ERROR, "", {})
  ELSE Reply(OK, "",
             {UserPublic(get_current_user(token, expired).user,
                         [email |-> user.email], organizations)})

update_user(token, expired, user_id, user) ==
  /\ update_user_response(token, expired, user_id, user).status = OK
  /\ users' = [users EXCEPT ![get_current_user(token, expired).user] =
                 [email |-> user.email,
                  password |-> get_password_hash(user.password)]]
  /\ UNCHANGED <<organizations, issued, issuedTo>> /\ UNCHANGED lifecycle

\* DELETE /users/{user_id}
delete_user_response(token, expired, user_id) ==
  IF ~get_current_user(token, expired).ok
  THEN Reply(get_current_user(token, expired).status,
             get_current_user(token, expired).detail, {})
  ELSE IF get_current_user(token, expired).user # user_id
  THEN Reply(BAD_REQUEST, "Not enough permissions", {})
  ELSE Reply(OK, "", {[message |-> "User deleted"]})

\* session.delete(current_user) takes the user's rows of organization_user
\* with it and leaves the organizations.
delete_user(token, expired, user_id) ==
  /\ delete_user_response(token, expired, user_id).status = OK
  /\ users' = [u \in DOMAIN users \ {get_current_user(token, expired).user}
                 |-> users[u]]
  /\ organizations' =
       [o \in DOMAIN organizations |->
          [organizations[o] EXCEPT
             !.users = @ \ {get_current_user(token, expired).user}]]
  /\ UNCHANGED <<issued, issuedTo>> /\ UNCHANGED lifecycle

\* The Token that login and refresh return for an email.
TokenPair(email, utcnow) ==
  {create_access_token([sub |-> email], utcnow),
   create_refresh_token([sub |-> email], utcnow)}

\* POST /auth/token
login_for_access_token_response(username, password, utcnow) ==
  IF UsersByEmail(username) = {}
  THEN Reply(BAD_REQUEST, "Incorrect email or password", {})
  ELSE IF ~verify_password(password,
                           users[CHOOSE u \in UsersByEmail(username) : TRUE]
                             .password)
  THEN Reply(BAD_REQUEST, "Incorrect email or password", {})
  ELSE Reply(OK, "", TokenPair(username, utcnow))

login_for_access_token(username, password, utcnow) ==
  /\ login_for_access_token_response(username, password, utcnow).status = OK
  /\ issued' = issued \cup
                  login_for_access_token_response(username, password, utcnow).out
  /\ issuedTo' = issuedTo \cup
       {<<token.sub, CHOOSE u \in UsersByEmail(username) : TRUE>> :
          token \in login_for_access_token_response(username, password, utcnow).out}
  /\ UNCHANGED <<users, organizations>> /\ UNCHANGED lifecycle

\* POST /auth/refresh
refresh_access_token_response(token, expired, utcnow) ==
  IF ~verify_token(token, "refresh", expired).ok
  THEN Reply(verify_token(token, "refresh", expired).status,
             verify_token(token, "refresh", expired).detail, {})
  ELSE Reply(OK, "",
             TokenPair(verify_token(token, "refresh", expired).email, utcnow))

refresh_access_token(token, expired, utcnow) ==
  /\ refresh_access_token_response(token, expired, utcnow).status = OK
  /\ issued' = issued \cup
                  refresh_access_token_response(token, expired, utcnow).out
  /\ UNCHANGED <<users, organizations, issuedTo>> /\ UNCHANGED lifecycle

\* No user has signed up and no token is out.
InitUsers ==
  /\ users = NoRows
  /\ organizations = NoRows
  /\ issued = {}
  /\ issuedTo = {}
  /\ projects = NoRows
  /\ files = NoRows
  /\ storage = {}
  /\ nextKey = 1
  /\ nextFile = 1
  /\ now = 1
  /\ up = Idle
  /\ fd = Idle
  /\ hookTasks = NoRows
  /\ bgTasks = {}
  /\ taskSessions = NoRows
  /\ purged = NoRows

\* The requests that take a step are the ones that the handlers answer
\* with success; the _response operators give the answer of the others.
NextUsers ==
  \/ \E user \in UserSchemas : create_user(user)
  \/ \E token \in Presentable : \E expired \in BOOLEAN :
       read_user(token, expired)
  \/ \E token \in Presentable : \E expired \in BOOLEAN :
       \E user_id \in UserIds : \E user \in UserSchemas :
         update_user(token, expired, user_id, user)
  \/ \E token \in Presentable : \E expired \in BOOLEAN :
       \E user_id \in UserIds : delete_user(token, expired, user_id)
  \/ \E username \in Emails : \E password \in Passwords :
       \E utcnow \in Times : login_for_access_token(username, password, utcnow)
  \/ \E token \in Presentable : \E expired \in BOOLEAN :
       \E utcnow \in Times : refresh_access_token(token, expired, utcnow)

SpecUsers == InitUsers /\ [][NextUsers]_vars

\* =================================================================
\* Requests as the application dispatches them
\* =================================================================
\* DELETE /organizations/{organization_id}/projects/{project_id}, served by
\* the first route of api_routes that matches.
DeleteProjectRequest(user, organization_id, project_id) ==
  IF Serving("projects.delete_project") = "organizations.delete_project"
  THEN organizations_delete_project(user, organization_id, project_id)
  ELSE delete_project(user, organization_id, project_id)

DeleteProjectResponse(user, organization_id, project_id) ==
  IF Serving("projects.delete_project") = "organizations.delete_project"
  THEN organizations_delete_project_response(user, organization_id, project_id)
  ELSE delete_project_response(user, organization_id, project_id)

\* GET /organizations/{organization_id}/projects/{project_id}.
ReadProjectResponse(user, organization_id, project_id) ==
  IF Serving("projects.read_project") = "organizations.read_project"
  THEN organizations_read_project_response(user, organization_id, project_id)
  ELSE read_project_response(user, organization_id, project_id)

\* PUT /organizations/{organization_id}/projects/{project_id}.
UpdateProjectResponse(user, organization_id, project_id) ==
  IF Serving("projects.update_project") = "organizations.update_project"
  THEN organizations_update_project_response(user, organization_id, project_id)
  ELSE update_project_response(user, organization_id, project_id)

\* GET /organizations/{organization_id}/projects, without a trailing slash
\* as the tests and the clients send it.
ListProjectsResponse(user, organization_id) ==
  IF Dispatch("GET", <<"organizations", "uuid", "projects">>)
       = "organizations.list_organization_projects"
  THEN organizations_list_organization_projects_response(user, organization_id)
  ELSE list_organization_projects_response(user, organization_id)

\* =================================================================
\* C1
\* =================================================================
\* The status of every answer `user` gets under `organization_id`, whatever
\* project, file, payload and storage outcome the request comes with.
AnswersUnder(user, organization_id) ==
  {organizations_list_organization_projects_response(user, organization_id).status,
   organizations_create_project_response(user, organization_id).status,
   list_organization_projects_response(user, organization_id).status,
   create_project_response(user, organization_id).status}
  \cup UNION {
    {organizations_read_project_response(user, organization_id, project_id).status,
     organizations_update_project_response(user, organization_id, project_id).status,
     organizations_delete_project_response(user, organization_id, project_id).status,
     read_project_response(user, organization_id, project_id).status,
     update_project_response(user, organization_id, project_id).status,
     delete_project_response(user, organization_id, project_id).status,
     hard_delete_project_response(user, organization_id, project_id).status,
     upload_response(user, organization_id, project_id).status}
    \cup {delete_file_response(user, organization_id, project_id, ids).status :
            ids \in IdLists}
    \cup {read_file_response(user, organization_id, project_id, file_id).status :
            file_id \in FileIds}
    \cup {download_file_response(user, organization_id, project_id, x[1], x[2]).status :
            x \in FileIds \X BOOLEAN}
    \cup {extract_bounding_boxes_response(user, organization_id, project_id,
                                          x[1], x[2], x[3]).status :
            x \in FileIds \X BOOLEAN \X BOOLEAN}
    : project_id \in ProjectIds}

\* A step of a handler serving a request of `user` under `organization_id`.
ServesUnder(user, organization_id) ==
  \/ organizations_list_organization_projects(user, organization_id)
  \/ list_organization_projects(user, organization_id)
  \/ \E project \in ProjectSchemas :
       \/ organizations_create_project(user, organization_id, project)
       \/ create_project(user, organization_id, project)
  \/ \E project_id \in ProjectIds :
       \/ organizations_read_project(user, organization_id, project_id)
       \/ organizations_delete_project(user, organization_id, project_id)
       \/ read_project(user, organization_id, project_id)
       \/ delete_project(user, organization_id, project_id)
       \/ \E project \in ProjectSchemas :
            \/ organizations_update_project(user, organization_id, project_id, project)
            \/ update_project(user, organization_id, project_id, project)
       \/ \E failed \in SUBSET PathsOf(ProjectFiles(project_id)) :
            hard_delete_project(user, organization_id, project_id, failed)
       \/ upload(user, organization_id, project_id)
       \/ \E ids \in IdLists : delete_file(user, organization_id, project_id, ids)
       \/ \E file_id \in FileIds :
            \/ read_file(user, organization_id, project_id, file_id)
            \/ \E presigned \in BOOLEAN :
                 download_file(user, organization_id, project_id, file_id, presigned)
            \/ \E presigned \in BOOLEAN, answered \in BOOLEAN :
                 extract_bounding_boxes(user, organization_id, project_id, file_id,
                                        presigned, answered)

NonMembers == {x \in Users \X Orgs : x[1] \notin OrgUsers[x[2]]}

\* C1: a user who is not a member of an organization is answered NotFound
\* by every endpoint under it (list, create, read, update, soft delete and
\* hard delete of a project; upload, batch delete, read, download and
\* extract_bounding_boxes of a file), whether or not the project or the file
\* exists, and no handler serving such a request can take a step that
\* changes a row of the database or an object of the storage.
C1_NonMemberNotFound ==
  \A x \in NonMembers :
    /\ AnswersUnder(x[1], x[2]) = {NOT_FOUND}
    /\ ~ENABLED (/\ ServesUnder(x[1], x[2])
                 /\ <<projects, files, storage>>' # <<projects, files, storage>>)

\* C1 witness: a user faces an organization they are not a member of that
\* holds a project with a File row and its stored object, while another
\* project id names no project; the hard delete of the project that exists
\* is answered NotFound.
C1_Witness ==
  \E x \in NonMembers : \E project_id \in DOMAIN projects :
    /\ projects[project_id].organization_id = x[2]
    /\ ProjectFiles(project_id) # {}
    /\ PathsOf(ProjectFiles(project_id)) \subseteq storage
    /\ ProjectIds \ UsedProjectIds # {}
    /\ hard_delete_project_response(x[1], x[2], project_id).status = NOT_FOUND

\* =================================================================
\* C2
\* =================================================================
\* C2: a DELETE of /organizations/{organization_id}/projects/{project_id}
\* by a member, served by the handler the application dispatches it to, is
\* a soft delete: after the step the Project row is still there with
\* deleted_at set, the File rows are what they were, and no storage delete
\* has been attempted (the storage is unchanged, no project is purged and
\* no task of the before_delete hook is created).
C2_DeleteIsSoftDelete ==
  [][\A organization_id \in Orgs : \A user \in OrgUsers[organization_id] :
       \A project_id \in ProjectIds :
         DeleteProjectRequest(user, organization_id, project_id) =>
           /\ project_id \in DOMAIN projects'
           /\ projects'[project_id].deleted_at # NULL
           /\ files' = files
           /\ storage' = storage
           /\ purged' = purged
           /\ hookTasks' = hookTasks]_vars

HardDeleteStep(user, organization_id, project_id) ==
  \E failed \in SUBSET PathsOf(ProjectFiles(project_id)) :
    hard_delete_project(user, organization_id, project_id, failed)

RowsAbsent(project_id) ==
  /\ project_id \notin DOMAIN projects
  /\ \A f \in DOMAIN files : files[f].project_id # project_id

\* C4: the hard delete of a project by a member of its organization is
\* answered 204 and takes its step whether the project is active or
\* soft-deleted; after the step the Project row and every File row of the
\* project are absent; and a hard delete of the id of a project that has
\* been deleted is answered NotFound and takes no step.
C4_HardDelete ==
  /\ \A project_id \in DOMAIN projects :
       \A user \in OrgUsers[projects[project_id].organization_id] :
         LET organization_id == projects[project_id].organization_id
         IN  /\ hard_delete_project_response(user, organization_id, project_id).status
                  = NO_CONTENT
             /\ ENABLED HardDeleteStep(user, organization_id, project_id)
             /\ ~ENABLED (/\ HardDeleteStep(user, organization_id, project_id)
                          /\ ~RowsAbsent(project_id)')
  /\ \A project_id \in DOMAIN purged :
       \A organization_id \in Orgs : \A user \in Users :
         /\ hard_delete_project_response(user, organization_id, project_id).status
              = NOT_FOUND
         /\ ~ENABLED HardDeleteStep(user, organization_id, project_id)

\* C4 witness: a soft-deleted project has been hard-deleted (the task of the
\* hook still holds its deleted_at), its rows are absent and a member is
\* answered NotFound for another hard delete of it.
C4_Witness ==
  \E project_id \in DOMAIN hookTasks :
    /\ hookTasks[project_id].deleted_at # NULL
    /\ hookTasks[project_id].files # {}
    /\ RowsAbsent(project_id)
    /\ \E organization_id \in Orgs : \E user \in OrgUsers[organization_id] :
         hard_delete_project_response(user, organization_id, project_id).status
           = NOT_FOUND

\* =================================================================
\* C5
\* =================================================================
\* C5: for every set of files of a project whose storage delete fails, all
\* of them included, the hard delete by a member is answered 204, takes
\* its step, and the Project row and every File row of the project are
\* absent after it.
C5_HardDeleteIgnoresStorageErrors ==
  \A project_id \in DOMAIN projects :
    \A user \in OrgUsers[projects[project_id].organization_id] :
      \A failed \in SUBSET PathsOf(ProjectFiles(project_id)) :
        LET organization_id == projects[project_id].organization_id
        IN  /\ hard_delete_project_response(user, organization_id, project_id).status
                 = NO_CONTENT
            /\ ENABLED (/\ hard_delete_project(user, organization_id, project_id, failed)
                        /\ RowsAbsent(project_id)')
            /\ ~ENABLED (/\ hard_delete_project(user, organization_id, project_id, failed)
                         /\ ~RowsAbsent(project_id)')

\* C5 witness: a project with files has been hard-deleted with the storage
\* delete of every file failing: the objects are still stored and the rows
\* are absent.
C5_Witness ==
  \E project_id \in DOMAIN hookTasks :
    /\ hookTasks[project_id].files # {}
    /\ hookTasks[project_id].files \subseteq storage
    /\ RowsAbsent(project_id)

\* =================================================================
\* C6
\* =================================================================
\* C6: the storage deletes attempted for a deleted project, by the loop of
\* the handler and by the task of the before_delete hook together, number
\* exactly its File rows whenever any has been attempted.
C6_ExactlyNAttempts ==
  \A project_id \in DOMAIN purged :
    purged[project_id].attempts # 0
    => purged[project_id].attempts = purged[project_id].files

C9_DeleteFileAllOrNothing ==
  fd.pc = "gathered" =>
    /\ fd.raised =>
         /\ delete_file_finish_response.status = INTERNAL_SERVER_ERROR
         /\ ENABLED (delete_file_finish /\ files' = files)
    /\ ~fd.raised =>
         PathsOf(fd.db_files \cap DOMAIN files) \cap storage = {}
    /\ ~ENABLED (/\ delete_file_finish
                 /\ files' # files
                 /\ \/ fd.raised
                    \/ delete_file_finish_response.status # NO_CONTENT)

\* C9 witness: a delete_file that matched two rows is back from its gather
\* with an exception; the object of one row is gone, the object of the
\* other is still stored, and both rows are in the table.
C9_Witness ==
  /\ fd.pc = "gathered"
  /\ fd.raised
  /\ fd.db_files \subseteq DOMAIN files
  /\ \E f \in fd.db_files : files[f].path \notin storage
  /\ \E f \in fd.db_files : files[f].path \in storage

\* =================================================================
\* C10
\* =================================================================
\* C10: for a member and an active project P of the organization, a
\* delete_file with the id list L that matches no row is answered NotFound
\* and takes no step; one that matches takes the rows with id in L and
\* project_id P to its gather, and when the gather did not raise it is
\* answered 204 and removes exactly these rows, every other row staying as
\* it was.
C10_DeleteFileRemovesExactlyMatched ==
  /\ \A project_id \in DOMAIN projects :
       \A user \in OrgUsers[projects[project_id].organization_id] :
         \A ids \in IdLists :
           LET organization_id == projects[project_id].organization_id
               matched == {f \in DOMAIN files :
                             /\ \E i \in 1..Len(ids) : ids[i] = f
                             /\ files[f].project_id = project_id}
           IN  projects[project_id].deleted_at = NULL =>
                 IF matched = {}
                 THEN /\ delete_file_response(user, organization_id, project_id, ids).status
                           = NOT_FOUND
                      /\ ~ENABLED delete_file(user, organization_id, project_id, ids)
                 ELSE ~ENABLED (/\ delete_file(user, organization_id, project_id, ids)
                                /\ fd'.db_files # matched)
  /\ (fd.pc = "gathered" /\ ~fd.raised) =>
       /\ delete_file_finish_response.status = NO_CONTENT
       /\ ENABLED delete_file_finish
       /\ ~ENABLED (/\ delete_file_finish
                    /\ files' # [f \in DOMAIN files \ fd.db_files |-> files[f]])

\* C10 witness: a delete_file is back from its gather without an exception
\* while the table holds a row it did not match, and a member is answered
\* NotFound for an id list that matches no row of an active project.
C10_Witness ==
  /\ fd.pc = "gathered"
  /\ ~fd.raised
  /\ fd.db_files \subseteq DOMAIN files
  /\ DOMAIN files \ fd.db_files # {}
  /\ \E project_id \in DOMAIN projects :
       \E user \in OrgUsers[projects[project_id].organization_id] :
         \E ids \in IdLists :
           delete_file_response(user, projects[project_id].organization_id,
                                project_id, ids).detail = "No files found in database"

\* =================================================================
\* C11
\* =================================================================
\* C11: in every reachable state the contents of every File row is
\* non-null exactly when its processed_at is non-null.
C11_ContentsIffProcessedAt ==
  \A f \in DOMAIN files :
    (files[f].contents # NoContents) <=> (files[f].processed_at # NULL)

\* C11 witness: the table holds a row written by extract_text and a row
\* written by extract_bounding_boxes.
C11_Witness ==
  /\ \E f \in DOMAIN files :
       files[f].contents = TextContents /\ files[f].processed_at # NULL
  /\ \E f \in DOMAIN files :
       files[f].contents = BoxContents /\ files[f].processed_at # NULL

C13_ExtractionFailureChangesNothing ==
  \A file_id \in bgTasks :
    /\ file_id \in DOMAIN files =>
         /\ files[file_id].contents = NoContents
         /\ files[file_id].processed_at = NULL
    /\ ENABLED extract_text(file_id, FALSE)
    /\ ~ENABLED (/\ extract_text(file_id, FALSE)
                 /\ ~(/\ bgTasks' = bgTasks \ {file_id}
                      /\ UNCHANGED <<projects, files, storage, nextKey, nextFile,
                                     now, up, fd, hookTasks, purged>>))

\* C13 witness: the task of an application/pdf row has ended (none is
\* scheduled for it) and the row has contents and processed_at null.
C13_Witness ==
  \E f \in DOMAIN files \ bgTasks :
    /\ files[f].mime_type = PDF
    /\ files[f].contents = NoContents
    /\ files[f].processed_at = NULL
    /\ up.pc = "idle"

NoSuchProject(user, organization_id, project_id) ==
  user \in OrgUsers[organization_id] /\ project_id \notin DOMAIN projects

OtherOrganization(user, organization_id, project_id) ==
  /\ user \in OrgUsers[organization_id]
  /\ project_id \in DOMAIN projects
  /\ projects[project_id].organization_id # organization_id

NotAMember(user, organization_id, project_id) ==
  /\ user \notin OrgUsers[organization_id]
  /\ project_id \in DOMAIN projects
  /\ projects[project_id].organization_id = organization_id

SoftDeleted(user, organization_id, project_id) ==
  /\ user \in OrgUsers[organization_id]
  /\ project_id \in DOMAIN projects
  /\ projects[project_id].organization_id = organization_id
  /\ projects[project_id].deleted_at # NULL

\* C16: get_project of either router fails a request for a project that
\* does not exist, that is of another organization, or that is of an
\* organization the user is not a member of, and get_project of
\* projects.router with ignore_deleted one for a soft-deleted project; all
\* these failures are the same answer, status and detail.
C16_GuardFailuresAlike ==
  LET requests == Users \X Orgs \X ProjectIds
      inaccessible == {r \in requests : \/ NoSuchProject(r[1], r[2], r[3])
                                         \/ OtherOrganization(r[1], r[2], r[3])
                                         \/ NotAMember(r[1], r[2], r[3])}
      answers ==
        {get_project(r[1], r[2], r[3], d) : r \in inaccessible, d \in BOOLEAN}
        \cup {organizations_get_project(r[1], r[2], r[3]) : r \in inaccessible}
        \cup {get_project(r[1], r[2], r[3], TRUE) :
                r \in {q \in requests : SoftDeleted(q[1], q[2], q[3])}}
  IN  /\ \A a \in answers : ~a.ok
      /\ \A a \in answers, b \in answers : a.status = b.status /\ a.detail = b.detail
      /\ answers \subseteq {Failure(NOT_FOUND, "Project not found.")}

\* C16 witness: a state with a request of each kind: a project id that
\* names no project, a project addressed under another organization, a
\* user who is not a member, and a soft-deleted project.
C16_Witness ==
  /\ \E r \in Users \X Orgs \X ProjectIds : NoSuchProject(r[1], r[2], r[3])
  /\ \E r \in Users \X Orgs \X ProjectIds : OtherOrganization(r[1], r[2], r[3])
  /\ \E r \in Users \X Orgs \X ProjectIds : NotAMember(r[1], r[2], r[3])
  /\ \E r \in Users \X Orgs \X ProjectIds : SoftDeleted(r[1], r[2], r[3])

\* =================================================================
\* C17
\* =================================================================
\* C17: for a member and an active project of the organization,
\* download_file of a file of the project asks get_download_url for the
\* path and the original_filename of that File row and answers with the
\* URL it gets (or with its failure); for a file id that names no File row
\* of the project it answers NotFound, without a URL.
C17_DownloadPresignsStoredKey ==
  \A project_id \in DOMAIN projects :
    projects[project_id].deleted_at = NULL =>
      \A user \in OrgUsers[projects[project_id].organization_id] :
        \A file_id \in FileIds : \A presigned \in BOOLEAN :
          LET reply == download_file_response(user, projects[project_id].organization_id,
                                              project_id, file_id, presigned)
          IN  IF file_id \in DOMAIN files /\ files[file_id].project_id = project_id
              THEN IF presigned
                   THEN /\ reply.status = OK
                        /\ reply.out = {[Key |-> files[file_id].path,
                                         filename |-> files[file_id].original_filename]}
                   ELSE /\ reply.status = INTERNAL_SERVER_ERROR
                        /\ reply.out = {}
              ELSE /\ reply.status = NOT_FOUND
                   /\ reply.detail = "File not found."
                   /\ reply.out = {}

\* C17 witness: an active project has two File rows, so that the path of
\* one is not the path of the other, and a file id names no row of another
\* active project.
C17_Witness ==
  \E project_id \in DOMAIN projects : \E other \in DOMAIN projects :
    /\ projects[project_id].deleted_at = NULL
    /\ projects[other].deleted_at = NULL
    /\ other # project_id
    /\ Cardinality(ProjectFiles(project_id)) = 2
    /\ PathsOf(ProjectFiles(project_id)) \subseteq storage

\* ------------------------------------------------------------------ C18
\* The refresh tokens that verify_token's decode accepts at a presentation.
ValidRefreshToken(token, expired) ==
  token \in issued /\ token.type = "refresh" /\ ~expired

C19_OnlyOwnUserRecord ==
  \A token \in Presentable : \A expired \in BOOLEAN : \A user_id \in UserIds :
    (/\ get_current_user(token, expired).ok
     /\ get_current_user(token, expired).user # user_id) =>
      /\ delete_user_response(token, expired, user_id).status = BAD_REQUEST
      /\ delete_user_response(token, expired, user_id).detail
           = "Not enough permissions"
      /\ ~ENABLED (delete_user(token, expired, user_id) /\ users' # users)
      /\ \A user \in UserSchemas :
            /\ update_user_response(token, expired, user_id, user).status
                 = BAD_REQUEST
            /\ update_user_response(token, expired, user_id, user).detail
                 = "Not enough permissions"
            /\ ~ENABLED (/\ update_user(token, expired, user_id, user)
                         /\ users' # users)

\* Two users, and the access token of one of them is out: it can be sent
\* with the id of the other.
C19_Witness ==
  \E u1, u2 \in DOMAIN users : \E t \in Times :
    /\ u1 # u2
    /\ [sub |-> users[u1].email, type |-> "access", exp |-> t, signed |-> TRUE]
         \in issued

\* ------------------------------------------------------------------ C20
\* What create_user leaves behind for an email that no user has: one more
\* row of users, with the email, and one more organization, named Default,
\* whose users are that one user; every other row is as it was.
CreatedUserAndOrganization(user) ==
  /\ \E u \in DOMAIN users' \ DOMAIN users :
       /\ DOMAIN users' = DOMAIN users \cup {u}
       /\ users'[u].email = user.email
       /\ verify_password(user.password, users'[u].password)
       /\ \E o \in DOMAIN organizations' \ DOMAIN organizations :
            /\ DOMAIN organizations' = DOMAIN organizations \cup {o}
            /\ organizations'[o] = [name |-> "Default", users |-> {u}]
  /\ \A u \in DOMAIN users : users'[u] = users[u]
  /\ \A o \in DOMAIN organizations : organizations'[o] = organizations[o]

\* C20: POST /users/ with an email that no user has answers 201 with the
\* user and their Default organization, and creates exactly one user and
\* exactly one organization, named Default, whose only member is that
\* user; with an email that a user has it answers 400 and creates nothing.
C20_CreateUserWithDefaultOrganization ==
  \A user \in UserSchemas :
    IF \E u \in DOMAIN users : users[u].email = user.email
    THEN /\ create_user_response(user).status = BAD_REQUEST
         /\ ~ENABLED create_user(user)
    ELSE /\ create_user_response(user).status = CREATED
         /\ \A out \in create_user_response(user).out :
              /\ out.email = user.email
              /\ \E org \in out.organizations : org.name = "Default"
         /\ NextId <= MaxUsers =>
              /\ ENABLED create_user(user)
              /\ ~ENABLED (/\ create_user(user)
                           /\ ~CreatedUserAndOrganization(user))

\* Some user has been created, with their organization, after another one,
\* and their email is taken while the other email of the model is free.
C20_Witness ==
  /\ Cardinality(DOMAIN organizations) >= 2
  /\ NextId <= MaxUsers
  /\ \E u \in DOMAIN users : \E o \in DOMAIN organizations :
       /\ organizations[o] = [name |-> "Default", users |-> {u}]
       /\ \E email \in Emails : \A v \in DOMAIN users : users[v].email # email

C22_StorageDeletesBeforeRowDeletion ==
  \A project_id \in DOMAIN hookTasks :
    project_id \notin DOMAIN projects => hookTasks[project_id].files = {}

\* ------------------------------------------------------------------ C23
\* The rows of files whose contents or processed_at a step writes.
WrittenFiles ==
  {f \in DOMAIN files \cap DOMAIN files' :
     \/ files'[f].contents # files[f].contents
     \/ files'[f].processed_at # files[f].processed_at}

\* A step of extract_bounding_boxes on the file.
BoundingBoxesStep(file_id) ==
  \E organization_id \in Orgs : \E user \in OrgUsers[organization_id] :
    \E presigned \in BOOLEAN, answered \in BOOLEAN :
      extract_bounding_boxes(user, organization_id, files[file_id].project_id,
                             file_id, presigned, answered)

\* C23 as stated: a row is added with contents and processed_at null, and
\* the only step that writes the contents or the processed_at of a row is
\* the extraction task of that file with the answer of the extraction
\* service at hand.
C23_OnlyExtractTextProcesses ==
  [][/\ \A f \in DOMAIN files' \ DOMAIN files :
          files'[f].contents = NoContents /\ files'[f].processed_at = NULL
     /\ \A f \in WrittenFiles : f \in bgTasks /\ extract_text(f, TRUE)]_vars

\* C23: a row is added with contents and processed_at null.  The only steps
\* that write the contents or the processed_at of a row are the extraction
\* task of that file with the answer of the extraction service at hand,
\* and extract_bounding_boxes on that file when it is an image; the rows of
\* PDF files are written by their extraction task only.
C23_OnlyExtractionsProcess ==
  [][/\ \A f \in DOMAIN files' \ DOMAIN files :
          files'[f].contents = NoContents /\ files'[f].processed_at = NULL
     /\ \A f \in WrittenFiles :
          \/ f \in bgTasks /\ extract_text(f, TRUE)
          \/ /\ files[f].mime_type = PNG
             /\ BoundingBoxesStep(f)
             /\ files'[f].contents = BoxContents]_vars

\* Both writers have acted: a PDF row holds its text and an image row of
\* the same project holds its bounding boxes.
C23_Witness ==
  \E f, g \in DOMAIN files :
    /\ files[f].mime_type = PDF /\ files[f].contents = TextContents
    /\ files[g].mime_type = PNG /\ files[g].contents = BoxContents
    /\ files[g].processed_at # NULL

\* ------------------------------------------------------------------ C24
\* C24: every request and every extraction task has a database session of
\* its own.  The session given to an extraction task when it is scheduled
\* is not the session of the upload that schedules it, and no two
\* extraction tasks that are waiting have the same session.
C24_SessionsNotShared ==
  [][/\ \A f \in bgTasks' \ bgTasks : taskSessions'[f] # up.session
     /\ \A f, g \in bgTasks' :
          f # g => taskSessions'[f] # taskSessions'[g]]_vars

\* ------------------------------------------------------------------ C25
\* C25: a delete_file of a member on an active project calls
\* delete_file_from_s3 exactly once for every row whose id is in the list
\* and whose project_id is the project, with the path of that row, and
\* makes no other call: an id that is in the list twice, the id of no row
\* and the id of a row of another project add none.
C25_OneStorageDeletePerMatchedRow ==
  \A project_id \in DOMAIN projects :
    \A user \in OrgUsers[projects[project_id].organization_id] :
      \A ids \in IdLists :
        ~ENABLED (/\ delete_file(user, projects[project_id].organization_id,
                                 project_id, ids)
                  /\ fd'.calls #
                       [path \in {files[f].path :
                                    f \in {g \in DOMAIN files :
                                             /\ \E i \in 1..Len(ids) : ids[i] = g
                                             /\ files[g].project_id = project_id}}
                          |-> 1])

\* A delete_file is at its gather with one call, for the one row it
\* matched, while the table holds a row of another project.
C25_Witness ==
  /\ fd.pc = "gathered"
  /\ \E f \in fd.db_files :
       /\ f \in DOMAIN files
       /\ fd.calls = (files[f].path :> 1)
  /\ \E g \in DOMAIN files : files[g].project_id # fd.project_id

\* ------------------------------------------------------------------ C26
\* The handler reaches the call of the AI service: it is the request that
\* succeeds when the AI service answers.
AiCalled(user, organization_id, project_id, file_id, presigned) ==
  extract_bounding_boxes_response(user, organization_id, project_id, file_id,
                                  presigned, TRUE).status = OK

C27_FilesBelongToProjects ==
  \A f \in DOMAIN files : files[f].project_id \in DOMAIN projects

\* ------------------------------------------------------------------ C28
\* C28: an access token that a user got at login authenticates that user
\* only.  Whenever get_current_user resolves such a token, presented
\* before it expires, the row it returns is a user who logged in for that
\* token.
C28_TokenAuthenticatesItsUser ==
  \A pair \in issuedTo : \A token \in issued :
    (/\ token.type = "access"
     /\ token.sub = pair[1]
     /\ get_current_user(token, FALSE).ok) =>
      <<token.sub, get_current_user(token, FALSE).user>> \in issuedTo

\* ------------------------------------------------------------------ C29
\* C29: an extraction task whose File row has been deleted, by delete_file
\* or with its project, before the extraction service answers runs to its
\* end, whatever the answer is, and leaves the files table as it is: it
\* adds no row and writes none, and the task is done.
C29_ExtractionAfterRowDeletion ==
  \A file_id \in bgTasks :
    file_id \notin DOMAIN files =>
      \A extracted \in BOOLEAN :
        /\ ENABLED extract_text(file_id, extracted)
        /\ ~ENABLED (/\ extract_text(file_id, extracted)
                     /\ \/ files' # files
                        \/ file_id \in bgTasks'
                        \/ projects' # projects
                        \/ storage' # storage)

\* An extraction task is waiting for a file whose row is gone while the
\* table still holds another row.
C29_Witness ==
  \E file_id \in bgTasks :
    /\ file_id \notin DOMAIN files
    /\ DOMAIN files # {}

====
